---- MODULE Spec2Model ----
(***************************************************************************)
(* Scroll-pagination session of ElasticSearchQuerier.                      *)
(*                                                                         *)
(* Three drivers of the same session are modelled side by side:            *)
(*   "refactored"  refactored/main.go   (main, executeSearch, ...)         *)
(*   "modular"     unnamed/part_001 (main) + part_002 (ESClient)           *)
(*                 + part_003 (FileProcessor)                              *)
(*   "monolithic"  unnamed/part_000 (main, processHits)                    *)
(* The search engine is the environment: it serves the records of the      *)
(* index in consecutive pages of pageSize records, then empty pages, and   *)
(* may fail a request or return a malformed body while faults remain.      *)
(* Time is in milliseconds.                                                *)
(***************************************************************************)
EXTENDS Integers, Sequences, FiniteSets, TLC

(* ---------------- bounds of the model ---------------- *)
MaxN == 3
MaxP == 2
MaxFaults == 2
MaxClientN == 1
SlowOp == 300000

(* ---------------- program constants ---------------- *)
InitialInterval == 1000
MaxInterval == 30000
MaxElapsedTime == 300000
MultiplierNum == 3
MultiplierDen == 2
RandomizationDen == 2

Drivers == {"refactored", "modular", "monolithic"}

(* A record of the index as the engine returns it: src = it has a _source  *)
(* object, has = _source has the key "title", title = its string value.    *)
(* The i-th record of the index is one of: without _source, without title, *)
(* with an empty title, with a title of its own (the decimal of i).        *)
RecordKinds == {"nosource", "notitle", "empty", "titled"}

MakeRecord(kind, i) ==
  [src |-> kind # "nosource",
   has |-> kind \in {"empty", "titled"},
   title |-> IF kind = "titled" THEN ToString(i) ELSE ""]

DatasetsUpTo(m) ==
  UNION {{[i \in 1..n |-> MakeRecord(f[i], i)] : f \in [1..n -> RecordKinds]} : n \in 0..m}

Datasets == DatasetsUpTo(MaxN)

(* Shapes of a response body with a success status.                        *)
Shapes == {"ok", "badjson", "nocursor", "nototal", "nohits"}

Outcomes == {"ok", "transportErr", "engineErr"}

OpDurations == {0, SlowOp}

Min(a, b) == IF a < b THEN a ELSE b

NoResp == [status |-> "none", shape |-> "ok", cursor |-> 0, total |-> 0, hits |-> <<>>]

VARIABLES
  driver,       \* which entry point runs
  cancellable,  \* the context of the requests can be cancelled by its owner
  records,      \* the records matching the query, in engine order
  pageSize,     \* BatchSize / batchSize
  total,        \* hits.total.value the engine reports
  faults,       \* failures the environment may still inject
  pc,           \* position of the driver
  cancelled,    \* ctx.Err() != nil
  scrollID,     \* scrollID (refactored, monolithic) / result.ScrollID (modular)
  resp,         \* res: the response handed to the parser
  sink,         \* content of the output file, one element per line
  served,       \* pages the engine has served in this session
  currentPage,  \* currentPage (modular, monolithic)
  outcome,      \* "none" | "success" | "failed" | "panic"
  failPhase,    \* phase whose error ended the run
  warned,       \* a clear-scroll failure was logged
  attempts,     \* calls of the operation in the current backoff.Retry
  elapsed,      \* b.GetElapsedTime() of the current backoff.Retry
  interval,     \* b.currentInterval
  wait,         \* duration of the timer the retry loop sleeps on
  exhausted,    \* NextBackOff returned Stop because of MaxElapsedTime
  searchFails,  \* failed attempts of the initial search
  nScroll,      \* scroll requests issued
  emptySeen,    \* a scroll returned a well-formed page with zero records
  nonEmptyPages,\* pages with records handed to the hit processor
  emptyPages,   \* well-formed pages with zero records received
  visited,      \* records the hit processor iterated over
  clearResult,  \* outcome of the clear-scroll request
  clearedID,    \* scroll id sent with the clear-scroll request
  sentID,       \* scroll id sent with the latest scroll request
  sinkOpens,    \* os.Create calls on the output file
  sinkCloses    \* Close calls on the output file

inputV == <<driver, cancellable, records, pageSize, total>>
retryV == <<attempts, elapsed, interval, wait, exhausted>>
histV == <<searchFails, nScroll, emptySeen,
           nonEmptyPages, emptyPages, visited, clearResult, clearedID,
           sentID>>
fileV == <<sinkOpens, sinkCloses>>
vars == <<inputV, faults, pc, cancelled, scrollID, resp, sink, served,
          currentPage, outcome, failPhase, warned, retryV, histV, fileV>>

(* ---------------- the engine (environment) ---------------- *)

(* Records of the k-th page the engine serves (k = 0 is the first page).   *)
PageHits(k) ==
  LET lo == k * pageSize + 1
      hi == Min((k + 1) * pageSize, Len(records))
  IN IF lo > hi THEN <<>> ELSE SubSeq(records, lo, hi)

(* The _scroll_id of the k-th page: the engine hands out a new id with     *)
(* every page, so that a stale id is distinguishable from the live one.    *)
CursorOf(k) == k + 1

Response(k, shape) ==
  [status |-> "ok", shape |-> shape, cursor |-> CursorOf(k),
   total |-> total, hits |-> PageHits(k)]

(* ---------------- backoff.ExponentialBackOff ---------------- *)

(* Retry sites: the initial search is retried by every driver, the scroll  *)
(* request by the modular and the monolithic driver only.                  *)
UsesRetry_scrollOnly(drv, phase) ==
  phase = "scroll" /\ drv \in {"modular", "monolithic"}

UsesRetry(drv, phase) ==
  \/ phase = "open"
  \/ phase = "scroll" /\ drv \in {"modular", "monolithic"}

(* backoff.WithContext wraps the policy in retryWithBackoff only.          *)
ObservesCtx(drv) == drv = "refactored"

(* The request carries ctx (WithContext(ctx)); the monolithic driver       *)
(* passes context.Background().                                            *)
RequestUsesCtx(drv) == drv \in {"refactored", "modular"}

OperationFails_noIsError(out) == out = "transportErr"

(* The wrapped operation: err != nil or res.IsError() is a failure.        *)
OperationFails(out) == out \in {"transportErr", "engineErr"}

IncrementCurrentInterval(cur) ==
  IF cur * MultiplierNum >= MaxInterval * MultiplierDen
  THEN MaxInterval
  ELSE (cur * MultiplierNum) \div MultiplierDen

(* getRandomValueFromInterval draws from [cur - cur/2, cur + cur/2]; the   *)
(* draw is taken at the middle of that interval.                           *)
RandomValues(cur) ==
  {((cur - cur \div RandomizationDen) + (cur + cur \div RandomizationDen)) \div 2}

BudgetExceeded_elapsedOnly(el, next) == el > MaxElapsedTime

BudgetExceeded(el, next) == el + next > MaxElapsedTime

(* ---------------- response parsing ---------------- *)

(* json.Unmarshal of a hit into Hit: a missing _source or title leaves the *)
(* zero value "" in Hit.Source.Title.                                      *)
UnmarshalHit(rec) ==
  [src |-> TRUE, has |-> TRUE,
   title |-> IF rec.src /\ rec.has THEN rec.title ELSE ""]

ExtractHits(hs) == [i \in 1..Len(hs) |-> UnmarshalHit(hs[i])]

ParseResult(res, r, hs) ==
  [res |-> res, cursor |-> r.cursor, total |-> r.total, hits |-> hs]

(* refactored/main.go parseSearchResponse *)
ParseSearchResponse(r) ==
  IF r.shape # "ok"
  THEN ParseResult("error", r, <<>>)
  ELSE ParseResult("ok", r, ExtractHits(r.hits))

(* part_002 parseScrollResponse: unchecked type assertions panic.          *)
ParseScrollResponse(r) ==
  IF r.shape \in {"badjson", "nocursor"} THEN ParseResult("error", r, <<>>)
  ELSE IF r.shape \in {"nototal", "nohits"} THEN ParseResult("panic", r, <<>>)
  ELSE IF \E i \in 1..Len(r.hits) : ~r.hits[i].src
  THEN ParseResult("panic", r, <<>>)
  ELSE ParseResult("ok", r, r.hits)

(* part_000 main, decoding of the initial response (lines 134-154).        *)
DecodeFirst(r) ==
  IF r.shape \in {"badjson", "nocursor"} THEN ParseResult("error", r, <<>>)
  ELSE IF r.shape \in {"nototal", "nohits"} THEN ParseResult("panic", r, <<>>)
  ELSE ParseResult("ok", r, r.hits)

(* part_000 main, decoding of a scroll response (lines 184-204): the body  *)
(* is decoded into the map of the previous response, so a missing          *)
(* _scroll_id keeps the previous one; the total is not read again.         *)
DecodeNext(r, prev) ==
  IF r.shape = "badjson" THEN ParseResult("error", r, <<>>)
  ELSE IF r.shape = "nohits" THEN ParseResult("panic", r, <<>>)
  ELSE [res |-> "ok",
        cursor |-> IF r.shape = "nocursor" THEN prev ELSE r.cursor,
        total |-> r.total, hits |-> r.hits]

(* A response that is not a success response has no scroll id in its body. *)
Parse(drv, first, r, prev) ==
  IF r.status # "ok" THEN ParseResult("error", r, <<>>) ELSE
  CASE drv = "refactored" -> ParseSearchResponse(r)
    [] drv = "modular" -> ParseScrollResponse(r)
    [] drv = "monolithic" -> IF first THEN DecodeFirst(r) ELSE DecodeNext(r, prev)

(* ---------------- hit processing ---------------- *)

FormatLine(t) == t \o "\n"

TitleAction_abort(drv, hit) ==
  CASE drv = "refactored" -> IF hit.title # "" THEN "write" ELSE "error"
    [] drv = "modular" -> IF hit.has THEN "write" ELSE "error"
    [] drv = "monolithic" ->
         IF ~hit.src THEN "panic" ELSE IF hit.has THEN "write" ELSE "error"

(* What the hit processor does with one record.                            *)
TitleAction(drv, hit) ==
  CASE drv = "refactored" -> IF hit.title # "" THEN "write" ELSE "skip"
    [] drv = "modular" -> IF hit.has THEN "write" ELSE "skip"
    [] drv = "monolithic" ->
         IF ~hit.src THEN "panic" ELSE IF hit.has THEN "write" ELSE "skip"

RECURSIVE ProcessFrom(_, _, _, _, _)
ProcessFrom(drv, hits, i, failAt, acc) ==
  IF i > Len(hits)
  THEN [res |-> "ok", lines |-> acc, visited |-> Len(hits)]
  ELSE LET a == TitleAction(drv, hits[i]) IN
       CASE a = "panic" -> [res |-> "panic", lines |-> acc, visited |-> i - 1]
         [] a = "error" -> [res |-> "error", lines |-> acc, visited |-> i]
         [] a = "skip" -> ProcessFrom(drv, hits, i + 1, failAt, acc)
         [] a = "write" ->
              IF failAt = i
              THEN [res |-> "error", lines |-> acc, visited |-> i]
              ELSE ProcessFrom(drv, hits, i + 1, failAt,
                               Append(acc, FormatLine(hits[i].title)))

(* processHits / ProcessHits; failAt = i makes the write of record i fail, *)
(* failAt = 0 lets every write succeed.                                    *)
ProcessHits(drv, hits, failAt) == ProcessFrom(drv, hits, 1, failAt, <<>>)

WriteIndexes(drv, hits) ==
  {i \in 1..Len(hits) : TitleAction(drv, hits[i]) = "write"}

NoMoreHits_byTotal(hits) == currentPage > (total + pageSize - 1) \div pageSize

NoMoreHits_shortPage(hits) == Len(hits) < pageSize

(* len(result.Hits) == 0 *)
NoMoreHits(hits) == Len(hits) = 0

(* ---------------- the drivers ---------------- *)

(* The state of a driver before its first statement.                      *)
Start ==
  /\ faults = MaxFaults
  /\ pc = "init"
  /\ cancelled = FALSE
  /\ scrollID = 0
  /\ resp = NoResp
  /\ sink = <<"stale\n">>
  /\ served = 0
  /\ currentPage = 0
  /\ outcome = "none"
  /\ failPhase = "none"
  /\ warned = FALSE
  /\ attempts = 0
  /\ elapsed = 0
  /\ interval = InitialInterval
  /\ wait = 0
  /\ exhausted = FALSE
  /\ searchFails = 0
  /\ nScroll = 0
  /\ emptySeen = FALSE
  /\ nonEmptyPages = 0
  /\ emptyPages = 0
  /\ visited = 0
  /\ clearResult = "none"
  /\ clearedID = 0
  /\ sentID = 0
  /\ sinkOpens = 0
  /\ sinkCloses = 0

(* The three programs.  Only refactored/main.go has a context that can be  *)
(* cancelled (by its signal goroutine); part_001 and part_000 pass         *)
(* context.Background().                                                   *)
Init ==
  /\ driver \in Drivers
  /\ cancellable = (driver = "refactored")
  /\ records \in Datasets
  /\ pageSize \in 1..MaxP
  /\ total \in {Len(records), Len(records) + 1}
  /\ Start

(* The modular driver's ESClient under a caller whose context can be       *)
(* cancelled: InitialSearch and Scroll take ctx as a parameter.            *)
InitClient ==
  /\ driver = "modular"
  /\ cancellable = TRUE
  /\ records \in DatasetsUpTo(MaxClientN)
  /\ pageSize \in 1..MaxP
  /\ total \in {Len(records), Len(records) + 1}
  /\ Start

(* The run ends: log.Fatalf exits without running the deferred Close of    *)
(* the output file; a normal return and a panic run it.                    *)
End(o, phase) ==
  /\ pc' = "done"
  /\ outcome' = o
  /\ failPhase' = phase
  /\ sinkCloses' = IF o \in {"success", "panic"} THEN sinkCloses + 1 ELSE sinkCloses

Continue(next) ==
  /\ pc' = next
  /\ UNCHANGED <<outcome, failPhase, sinkCloses>>

(* os.Create(cfg.OutputFile) / NewFileProcessor: truncates the file; the   *)
(* first backoff.Retry starts with b.Reset().                              *)
OpenSink ==
  /\ pc = "init"
  /\ sink' = <<>>
  /\ sinkOpens' = sinkOpens + 1
  /\ Continue("search")
  /\ attempts' = 0 /\ elapsed' = 0 /\ interval' = InitialInterval
  /\ UNCHANGED <<inputV, faults, cancelled, scrollID, resp, served, currentPage,
                 warned, wait, exhausted, histV>>

(* The owner of the context cancels it: the signal goroutine of            *)
(* refactored/main.go, or the caller of ESClient.                          *)
Cancel ==
  /\ cancellable
  /\ ~cancelled
  /\ pc # "done"
  /\ cancelled' = TRUE
  /\ UNCHANGED <<inputV, faults, pc, scrollID, resp, sink, served, currentPage,
                 outcome, failPhase, warned, retryV, histV, fileV>>

(* A request issued with a cancelled context fails in the transport.       *)
Forced == cancelled /\ RequestUsesCtx(driver)

(* What the environment can answer to a page request.                      *)
Answer(d, out, shape) ==
  /\ out \in Outcomes
  /\ shape \in Shapes
  /\ out # "ok" => shape = "ok"
  /\ IF Forced
     THEN out = "transportErr" /\ d = 0 /\ faults' = faults
     ELSE IF out = "ok" /\ shape = "ok"
          THEN faults' = faults
          ELSE faults > 0 /\ faults' = faults - 1

(* backoff.Retry after a failed operation: NextBackOff, then the timer.    *)
AfterFailure(phase, d, waitPc) ==
  IF ObservesCtx(driver) /\ cancelled
  THEN /\ End("failed", phase)
       /\ elapsed' = elapsed + d
       /\ UNCHANGED <<interval, wait, exhausted>>
  ELSE \E next \in RandomValues(interval) :
         /\ elapsed' = elapsed + d
         /\ interval' = IncrementCurrentInterval(interval)
         /\ IF BudgetExceeded(elapsed + d, next)
            THEN /\ exhausted' = TRUE
                 /\ wait' = wait
                 /\ End("failed", phase)
            ELSE /\ exhausted' = exhausted
                 /\ wait' = next
                 /\ Continue(waitPc)

(* The retry policy is dead after a successful attempt; it is put back to  *)
(* its reset state.                                                        *)
RetryDone ==
  /\ attempts' = 0 /\ elapsed' = 0 /\ interval' = InitialInterval
  /\ UNCHANGED <<wait, exhausted>>

(* One attempt of es.Search inside backoff.Retry.                          *)
SearchAttempt(d, out, shape) ==
  /\ pc = "search"
  /\ Answer(d, out, shape)
  /\ IF OperationFails(out)
     THEN /\ searchFails' = searchFails + 1
          /\ attempts' = attempts + 1
          /\ IF UsesRetry(driver, "open")
             THEN AfterFailure("open", d, "searchWait")
             ELSE /\ d = 0
                  /\ End("failed", "open")
                  /\ UNCHANGED <<elapsed, interval, wait, exhausted>>
          /\ UNCHANGED <<resp, served>>
     ELSE /\ d = 0
          /\ resp' = IF out = "ok" THEN Response(served, shape)
                     ELSE [NoResp EXCEPT !.status = "error"]
          /\ served' = IF out = "ok" THEN served + 1 ELSE served
          /\ Continue("page1")
          /\ RetryDone
          /\ UNCHANGED searchFails
  /\ UNCHANGED <<inputV, cancelled, scrollID, sink, currentPage, warned,
                 nScroll, emptySeen, nonEmptyPages, emptyPages,
                 visited, clearResult, clearedID, sentID, sinkOpens>>

(* The retry loop's select: ctx.Done() or the timer.                       *)
BackoffWake ==
  /\ pc \in {"searchWait", "scrollWait"}
  /\ IF ObservesCtx(driver) /\ cancelled
     THEN /\ End("failed", IF pc = "searchWait" THEN "open" ELSE "scroll")
          /\ UNCHANGED <<elapsed, wait>>
     ELSE /\ elapsed' = elapsed + wait
          /\ wait' = 0
          /\ Continue(IF pc = "searchWait" THEN "search" ELSE "scroll")
  /\ UNCHANGED <<inputV, faults, cancelled, scrollID, resp, sink, served,
                 currentPage, warned, attempts, interval, exhausted, histV,
                 sinkOpens>>

(* The write the environment makes fail, 0 for none: a write that the      *)
(* processor reaches.                                                      *)
WriteFault(hits, failAt) ==
  /\ failAt \in {0} \cup {i \in WriteIndexes(driver, hits) :
                           ProcessHits(driver, hits, i).res = "error"}
  /\ IF failAt = 0 THEN faults' = faults ELSE faults > 0 /\ faults' = faults - 1

Appended_rewound(lines) == lines

(* file.WriteString: the file was opened by os.Create and is never seeked  *)
(* or truncated again, so every write lands after the bytes written before.*)
Appended(lines) == sink \o lines

WriteFailed_logged == Continue("loop")

(* A failed write ends the run: processHits returns the error and          *)
(* executeSearch hands it to main (195-197, 159-161); part_001 and         *)
(* part_000 call log.Fatalf.                                               *)
WriteFailed == End("failed", "write")

ParseFailed_retried(res) == Continue("loop")

(* A response that could not be parsed ends the run: the error is returned *)
(* to main, which exits (executeSearch 149-152, 184-187; part_001 53-55,   *)
(* 72-74); a failed type assertion is a panic.                             *)
ParseFailed(res) == End(IF res = "panic" THEN "panic" ELSE "failed", "parse")

AfterFirstPage_byTotal == Continue(IF total > pageSize THEN "loop" ELSE "clear")

(* After the first page the for loop is entered without a look at the      *)
(* total (executeSearch 164, part_001 67, part_000 157).                   *)
AfterFirstPage == Continue("loop")

(* Parsing and processing of the initial response.                         *)
HandleFirstPage(failAt) ==
  /\ pc = "page1"
  /\ LET p == Parse(driver, TRUE, resp, scrollID) IN
     IF p.res # "ok"
     THEN /\ ParseFailed(p.res)
          /\ UNCHANGED <<faults, scrollID, sink, currentPage, visited,
                         nonEmptyPages, emptyPages>>
     ELSE /\ WriteFault(p.hits, failAt)
          /\ scrollID' = p.cursor
          /\ currentPage' = 1
          /\ nonEmptyPages' = IF Len(p.hits) > 0 THEN nonEmptyPages + 1 ELSE nonEmptyPages
          /\ emptyPages' = IF Len(p.hits) = 0 THEN emptyPages + 1 ELSE emptyPages
          /\ LET r == ProcessHits(driver, p.hits, failAt) IN
               /\ sink' = Appended(r.lines)
               /\ visited' = visited + r.visited
               /\ CASE r.res = "ok" -> AfterFirstPage
                    [] r.res = "error" -> WriteFailed
                    [] r.res = "panic" -> End("panic", "write")
  /\ UNCHANGED <<inputV, cancelled, resp, served, warned, retryV, searchFails,
                 nScroll, emptySeen, clearResult,
                 clearedID, sentID, sinkOpens>>

CtxCheck_ignored(canc) == "scroll"

(* if ctx.Err() != nil { ...; break } at the top of the loop of            *)
(* executeSearch: where the iteration goes.                                *)
CtxCheck(canc) == IF canc THEN "clear" ELSE "scroll"

(* Top of the for loop: the refactored driver checks ctx.Err(), the others *)
(* count the page; the scroll's backoff.Retry starts with b.Reset().       *)
LoopHead ==
  /\ pc = "loop"
  /\ IF driver = "refactored"
     THEN /\ Continue(CtxCheck(cancelled))
          /\ currentPage' = currentPage
     ELSE /\ Continue("scroll")
          /\ currentPage' = currentPage + 1
  /\ attempts' = 0 /\ elapsed' = 0 /\ interval' = InitialInterval
  /\ UNCHANGED <<inputV, faults, cancelled, scrollID, resp, sink, served,
                 warned, wait, exhausted, histV, sinkOpens>>

WithScrollID_perAttempt == scrollID + attempts

(* es.Scroll.WithScrollID(scrollID): the id is a variable that the closure *)
(* of the retried operation only reads.                                    *)
WithScrollID == scrollID

(* One attempt of es.Scroll with the current scroll id.                    *)
ScrollAttempt(d, out, shape) ==
  /\ pc = "scroll"
  /\ Answer(d, out, shape)
  /\ nScroll' = nScroll + 1
  /\ sentID' = WithScrollID
  /\ IF OperationFails(out)
     THEN /\ attempts' = attempts + 1
          /\ IF UsesRetry(driver, "scroll")
             THEN AfterFailure("scroll", d, "scrollWait")
             ELSE /\ d = 0
                  /\ End("failed", "scroll")
                  /\ UNCHANGED <<elapsed, interval, wait, exhausted>>
          /\ UNCHANGED <<resp, served, emptySeen>>
     ELSE /\ d = 0
          /\ resp' = IF out = "ok" THEN Response(served, shape)
                     ELSE [NoResp EXCEPT !.status = "error"]
          /\ served' = IF out = "ok" THEN served + 1 ELSE served
          /\ emptySeen' = (emptySeen \/ (out = "ok" /\ shape = "ok" /\ PageHits(served) = <<>>))
          /\ Continue("pageN")
          /\ RetryDone
  /\ UNCHANGED <<inputV, cancelled, scrollID, sink, currentPage, warned,
                 searchFails, nonEmptyPages, emptyPages, visited, clearResult,
                 clearedID, sinkOpens>>

AdvanceCursor_stale(drv, res, cur) == scrollID

(* The scroll id kept after a page with records: result is replaced by the *)
(* new page in part_001 (line 71); scrollID = result.ScrollID after        *)
(* processHits has returned in executeSearch (199) and part_000 (201).     *)
AdvanceCursor(drv, res, cur) ==
  IF drv = "modular" \/ res = "ok" THEN cur ELSE scrollID

(* Parsing and processing of a scroll response.  The modular driver        *)
(* replaces result (and so result.ScrollID) before looking at the hits,    *)
(* the other two assign scrollID after the page was processed.             *)
HandleNextPage(failAt) ==
  /\ pc = "pageN"
  /\ LET p == Parse(driver, FALSE, resp, scrollID) IN
     IF p.res # "ok"
     THEN /\ ParseFailed(p.res)
          /\ UNCHANGED <<faults, scrollID, sink, visited, nonEmptyPages, emptyPages>>
     ELSE IF NoMoreHits(p.hits)
     THEN /\ failAt = 0
          /\ Continue("clear")
          /\ scrollID' = IF driver = "modular" THEN p.cursor ELSE scrollID
          /\ emptyPages' = IF Len(p.hits) = 0 THEN emptyPages + 1 ELSE emptyPages
          /\ UNCHANGED <<faults, sink, visited, nonEmptyPages>>
     ELSE /\ WriteFault(p.hits, failAt)
          /\ nonEmptyPages' = IF Len(p.hits) > 0 THEN nonEmptyPages + 1 ELSE nonEmptyPages
          /\ emptyPages' = IF Len(p.hits) = 0 THEN emptyPages + 1 ELSE emptyPages
          /\ LET r == ProcessHits(driver, p.hits, failAt) IN
               /\ sink' = Appended(r.lines)
               /\ visited' = visited + r.visited
               /\ scrollID' = AdvanceCursor(driver, r.res, p.cursor)
               /\ CASE r.res = "ok" -> Continue("loop")
                    [] r.res = "error" -> WriteFailed
                    [] r.res = "panic" -> End("panic", "write")
  /\ UNCHANGED <<inputV, cancelled, resp, served, currentPage, warned, retryV,
                 searchFails, nScroll, emptySeen,
                 clearResult, clearedID, sentID, sinkOpens>>

(* The clear-scroll request and the end of the run.                        *)
(*   refactored: clearScroll logs an error response, executeSearch logs a  *)
(*               transport error; the run returns nil either way.          *)
(*   modular:    ClearScroll returns the transport error only; main logs   *)
(*               a warning for it.                                         *)
(*   monolithic: a transport error is log.Fatalf, the response is dropped. *)
ClearLogged(drv, out) ==
  CASE drv = "refactored" -> out # "ok"
    [] drv = "modular" -> out = "transportErr"
    [] drv = "monolithic" -> FALSE

ClearFatal(drv, out) == drv = "monolithic" /\ out = "transportErr"

AfterClear_retried(out) ==
  IF out = "ok" THEN End("success", "none") ELSE Continue("clear")

(* The clear-scroll request is the last statement of the session: the run  *)
(* ends after it, whatever its result.                                     *)
AfterClear(out) ==
  IF ClearFatal(driver, out)
  THEN End("failed", "close")
  ELSE End("success", "none")

ClearScroll(out) ==
  /\ pc = "clear"
  /\ Answer(0, out, "ok")
  /\ clearResult' = out
  /\ clearedID' = scrollID
  /\ warned' = ClearLogged(driver, out)
  /\ AfterClear(out)
  /\ UNCHANGED <<inputV, cancelled, scrollID, resp, sink, served, currentPage,
                 retryV, searchFails, nScroll, emptySeen,
                 nonEmptyPages, emptyPages, visited, sentID,
                 sinkOpens>>

Next ==
  \/ OpenSink
  \/ Cancel
  \/ \E d \in OpDurations, out \in Outcomes, shape \in Shapes : SearchAttempt(d, out, shape)
  \/ BackoffWake
  \/ \E failAt \in 0..MaxP : HandleFirstPage(failAt)
  \/ LoopHead
  \/ \E d \in OpDurations, out \in Outcomes, shape \in Shapes : ScrollAttempt(d, out, shape)
  \/ \E failAt \in 0..MaxP : HandleNextPage(failAt)
  \/ \E out \in Outcomes : ClearScroll(out)

Spec == Init /\ [][Next]_vars

SpecClient == InitClient /\ [][Next]_vars

TypeOK ==
  /\ driver \in Drivers
  /\ pc \in {"init", "search", "searchWait", "page1", "loop", "scroll",
             "scrollWait", "pageN", "clear", "done"}
  /\ outcome \in {"none", "success", "failed", "panic"}
  /\ faults \in 0..MaxFaults
  /\ (pc = "done") = (outcome # "none")

(* ---------------- properties ---------------- *)

Done == pc = "done"

(* No failure was injected and the context was not cancelled.              *)
FailureFree == faults = MaxFaults /\ ~cancelled

AllHaveSource == \A i \in 1..Len(records) : records[i].src

CeilDiv(n, p) == (n + p - 1) \div p

HasTitle(rec) == rec.src /\ rec.has

LinesOf(recs) == [i \in 1..Len(recs) |-> FormatLine(recs[i].title)]

(* The lines of the records that carry the title field, in engine order.   *)
TitledLines == LinesOf(SelectSeq(records, HasTitle))

HasNonEmptyTitle(rec) == rec.src /\ rec.has /\ rec.title # ""

IsNonBlank(line) == line # FormatLine("")

(* C1: once a scroll request has returned a well-formed page with zero     *)
(* records, no further scroll request is issued and the driver only moves  *)
(* on to the clear-scroll request and the end of the run, whatever total   *)
(* the engine reported.                                                    *)
C1_EmptyPageEndsLoop ==
  [][emptySeen => (nScroll' = nScroll /\ pc' \in {"pageN", "clear", "done"})]_vars

C1_Witness ==
  /\ Done /\ outcome = "success" /\ emptySeen
  /\ total > Len(records) /\ Len(records) >= 2 /\ nScroll >= 2
  /\ driver = "modular"

(* C2 as stated: a failure-free session against an engine that reports the *)
(* true total N processes ceil(N/P) non-empty pages and receives exactly   *)
(* one empty page.                                                         *)
C2_Original ==
  (Done /\ outcome = "success" /\ FailureFree /\ total = Len(records))
    => /\ nonEmptyPages = CeilDiv(Len(records), pageSize)
       /\ emptyPages = 1

(* C2 amended: ceil(N/P) non-empty pages; one empty page when N >= 1, and  *)
(* two when N = 0, where the first page is empty and does not end the      *)
(* session, so that one more (empty) page is fetched.                      *)
C2_PagesProcessed ==
  (Done /\ outcome = "success" /\ FailureFree /\ total = Len(records))
    => /\ nonEmptyPages = CeilDiv(Len(records), pageSize)
       /\ emptyPages = (IF Len(records) = 0 THEN 2 ELSE 1)
       /\ nScroll = CeilDiv(Len(records), pageSize) + (IF Len(records) = 0 THEN 1 ELSE 0)

C2_Witness ==
  /\ Done /\ outcome = "success" /\ FailureFree /\ total = Len(records)
  /\ Len(records) = 3 /\ pageSize = 2
  /\ nonEmptyPages = 2 /\ emptyPages = 1

(* C3: after a session that ran to its end, the output file holds exactly  *)
(* the lines title + newline of the records that carry the title field,    *)
(* in the order the engine returned them.                                  *)
C3_SinkIsTitledLines ==
  (Done /\ outcome = "success" /\ ~cancelled) => sink = TitledLines

(* C4: after a session that did not abort, the number of lines of the      *)
(* output file equals the number of records in which the title field is    *)
(* present, an empty title included.                                       *)
C4_LineCount ==
  (Done /\ outcome = "success" /\ ~cancelled)
    => Len(sink) = Cardinality({i \in 1..Len(records) : HasTitle(records[i])})

(* C5: records without a title field do not abort a failure-free session:  *)
(* the run succeeds, the hit processor visits every record of every page,  *)
(* and every record with a non-empty title has its line in the file.       *)
C5_MissingTitleSkipped ==
  (Done /\ FailureFree /\ AllHaveSource)
    => /\ outcome = "success"
       /\ visited = Len(records)
       /\ SelectSeq(sink, IsNonBlank) = LinesOf(SelectSeq(records, HasNonEmptyTitle))

C5_Witness ==
  /\ Done /\ FailureFree /\ outcome = "success"
  /\ driver = "refactored"
  /\ Len(records) = 3 /\ pageSize = 1
  /\ ~records[1].has /\ records[1].src
  /\ records[2].title = "2" /\ records[3].title = "3"
  /\ sink = <<"2\n", "3\n">>

(* The outcome and the file content of the session when no request fails,  *)
(* no write fails and the context is not cancelled: page k is parsed and   *)
(* processed until a scroll returns a page without records.                *)
RECURSIVE CleanFrom(_, _, _, _)
CleanFrom(drv, k, acc, cur) ==
  LET p == Parse(drv, k = 0, Response(k, "ok"), cur) IN
  IF p.res # "ok"
  THEN [outcome |-> IF p.res = "panic" THEN "panic" ELSE "failed", sink |-> acc]
  ELSE IF k > 0 /\ Len(p.hits) = 0
  THEN [outcome |-> "success", sink |-> acc]
  ELSE LET r == ProcessHits(drv, p.hits, 0) IN
       IF r.res # "ok"
       THEN [outcome |-> IF r.res = "panic" THEN "panic" ELSE "failed",
             sink |-> acc \o r.lines]
       ELSE CleanFrom(drv, k + 1, acc \o r.lines, p.cursor)

CleanRun == CleanFrom(driver, 0, <<>>, 0)

(* C6: when the only failures of a run are failed attempts of the initial  *)
(* search and the retry budget was not exhausted, the run ends with the    *)
(* outcome and the file content of the run without failures.               *)
C6_OpenRetryTransparent ==
  (Done /\ searchFails >= 1 /\ ~exhausted /\ ~cancelled
        /\ faults + searchFails = MaxFaults)
    => /\ outcome = CleanRun.outcome
       /\ sink = CleanRun.sink

C6_Witness ==
  /\ Done /\ searchFails = 2 /\ ~exhausted /\ ~cancelled /\ faults = MaxFaults - 2
  /\ outcome = "success" /\ Len(sink) = 3 /\ pageSize = 2

(* C7: in the refactored and the modular driver a run ends on a failed     *)
(* scroll request only after the retry budget of that request was          *)
(* exhausted.                                                              *)
C7_ScrollRetried ==
  (Done /\ failPhase = "scroll" /\ ~cancelled /\ driver \in {"refactored", "modular"})
    => exhausted

(* C8: when the clear-scroll request fails, by transport error or by error *)
(* response, after the data was drained, the run still ends with success   *)
(* (the failure surfaces as no more than a logged warning), in every       *)
(* driver.                                                                 *)
C8_CloseFailureNonFatal ==
  (Done /\ emptySeen /\ clearResult \in {"transportErr", "engineErr"} /\ ~cancelled)
    => outcome = "success"

Attempting == pc \in {"search", "scroll"}
Waiting == pc \in {"searchWait", "scrollWait"}
Paging == pc \in {"page1", "pageN"}
PhaseOf(p) == IF p \in {"search", "searchWait"} THEN "open" ELSE "scroll"
AttemptFailed == attempts' = attempts + 1

(* C9: the retrying executor, at the requests that go through it: a failed *)
(* attempt is followed by the backoff wait and the wait by a new attempt,  *)
(* unless the budget is exhausted (or the observed context is cancelled);  *)
(* the response it hands on is that of a successful attempt; when the      *)
(* budget is exhausted the run fails and no response is handed on.         *)
C9_RetryUntilSuccessOrExhausted ==
  [][/\ (Attempting /\ UsesRetry(driver, PhaseOf(pc)) /\ AttemptFailed
           /\ ~(ObservesCtx(driver) /\ cancelled))
        => (pc' = (IF pc = "search" THEN "searchWait" ELSE "scrollWait") \/ exhausted')
     /\ (Waiting /\ pc' # pc /\ ~(ObservesCtx(driver) /\ cancelled))
        => (pc' = (IF pc = "searchWait" THEN "search" ELSE "scroll") /\ attempts' = attempts)
     /\ (Attempting /\ UsesRetry(driver, PhaseOf(pc)) /\ pc' \in {"page1", "pageN"})
        => (resp'.status = "ok" /\ served' = served + 1 /\ ~exhausted')
     /\ (exhausted' /\ ~exhausted)
        => (pc' = "done" /\ outcome' = "failed" /\ failPhase' = PhaseOf(pc)
            /\ resp' = resp
            /\ \E next \in RandomValues(interval) : elapsed' + next > MaxElapsedTime)
    ]_vars

C9_Witness ==
  /\ Done /\ exhausted /\ outcome = "failed" /\ failPhase = "scroll"
  /\ attempts = 2 /\ elapsed > MaxElapsedTime /\ driver = "monolithic"

(* C10: once the context is cancelled while a retry loop waits between     *)
(* attempts, the loop returns an error at once: no further attempt is      *)
(* started and the remaining wait is not slept.                            *)
C10_CancelStopsRetries ==
  [][(cancelled /\ Waiting)
       => (pc' = "done" /\ outcome' = "failed" /\ attempts' = attempts /\ elapsed' = elapsed)]_vars

ParseFails == Paging /\ Parse(driver, pc = "page1", resp, scrollID).res # "ok"

(* C12: a response that the parser rejects, on the first page or on a      *)
(* later one, ends the run with a failure outcome in the step that handles *)
(* it: the request is not repeated, no further page is requested, and      *)
(* nothing of that response is written or processed.                       *)
C12_ParseErrorAborts ==
  [][ParseFails =>
       /\ nScroll' = nScroll /\ served' = served /\ attempts' = attempts
       /\ sink' = sink /\ visited' = visited
       /\ pc' \in {pc, "done"}
       /\ pc' = "done" => (outcome' \in {"failed", "panic"} /\ failPhase' = "parse")
    ]_vars

(* A later page was rejected after an earlier page had been written.       *)
C12_Witness ==
  /\ Done /\ failPhase = "parse" /\ outcome = "failed"
  /\ driver = "refactored" /\ resp.shape = "nohits"
  /\ nScroll = 1 /\ sink # <<>> /\ Len(sink) < Len(TitledLines)

(* The records of the page being handled, and the step in which one of     *)
(* their writes fails.                                                     *)
PageBeingHandled == Parse(driver, pc = "page1", resp, scrollID).hits

WriteFails == Paging /\ faults' = faults - 1

(* C13: the first write that fails ends the run with the failure outcome   *)
(* of a write error: the records before it are written, the failing write  *)
(* is not repeated, no later record is visited or written, and no further  *)
(* page is requested.                                                      *)
C13_WriteErrorFatal ==
  [][WriteFails =>
       /\ pc' = "done" /\ outcome' = "failed" /\ failPhase' = "write"
       /\ nScroll' = nScroll /\ served' = served
       /\ \E k \in WriteIndexes(driver, PageBeingHandled) :
            /\ sink' = sink \o ProcessHits(driver, SubSeq(PageBeingHandled, 1, k - 1), 0).lines
            /\ visited' = visited + k
    ]_vars

(* The write of the only record of the second page failed: the file holds  *)
(* the two lines of the first page.                                        *)
C13_Witness ==
  /\ Done /\ outcome = "failed" /\ failPhase = "write"
  /\ driver = "refactored" /\ pageSize = 2 /\ Len(records) = 3
  /\ \A i \in 1..3 : records[i].title # ""
  /\ nScroll = 1 /\ Len(sink) = 2 /\ visited = 3

(* C14: in the refactored driver, a response with a record that has no     *)
(* _source object is rejected by the parser with an error; the record is   *)
(* not handed on to the hit processor.                                     *)
C14_MissingSourceIsParseError ==
  (driver = "refactored" /\ Paging /\ resp.status = "ok" /\ resp.shape = "ok"
     /\ \E i \in 1..Len(resp.hits) : ~resp.hits[i].src)
    => Parse(driver, pc = "page1", resp, scrollID).res = "error"

(* C15: in the refactored and the modular driver the parser returns an     *)
(* error, and no page, for a response body without the scroll id, without  *)
(* the total or without the hits array, and returns a page only for a body *)
(* that has all three.                                                     *)
C15_IncompleteIsError ==
  (driver \in {"refactored", "modular"} /\ Paging /\ resp.status = "ok")
    => LET p == Parse(driver, pc = "page1", resp, scrollID) IN
       /\ resp.shape \in {"nocursor", "nototal", "nohits"} => p.res = "error"
       /\ p.res = "ok" => resp.shape = "ok"

(* The steps that send a request to the engine.                            *)
OpenSent == pc = "search" /\ pc' # pc
FetchSent == nScroll' = nScroll + 1
CloseSent == pc = "clear" /\ pc' # pc

(* C16: the requests of a run are search attempts, then scroll requests,   *)
(* then at most one clear-scroll request: a search is sent only before any *)
(* scroll or clear-scroll; a scroll or a clear-scroll is sent only after   *)
(* the search has succeeded and its page was handled; no scroll is sent    *)
(* after the clear-scroll; the clear-scroll is sent once, its failure      *)
(* included, and the run ends with it.  Every request is sent and answered *)
(* in one step of the single thread of control.                            *)
C16_RequestOrder ==
  [][/\ OpenSent => (nScroll = 0 /\ clearResult = "none" /\ served = 0)
     /\ FetchSent => (pc = "scroll" /\ served >= 1 /\ currentPage >= 1 /\ clearResult = "none")
     /\ CloseSent => (served >= 1 /\ currentPage >= 1 /\ clearResult = "none"
                      /\ clearResult' # "none" /\ pc' = "done")
     /\ clearResult # "none" => (pc = "done" /\ clearResult' = clearResult /\ ~FetchSent)
     /\ Cardinality({b \in {OpenSent, FetchSent, CloseSent} : b}) <= 1
    ]_vars

(* A run with a retried search, two scroll requests and a failed           *)
(* clear-scroll.                                                           *)
C16_Witness ==
  /\ Done /\ searchFails = 1 /\ nScroll = 2 /\ clearResult = "engineErr"
  /\ outcome = "success" /\ driver = "modular"

(* C17: a scroll request carries the scroll id the driver holds, which is  *)
(* the id of the most recent response that was parsed (the last response   *)
(* served, whenever that response had an id); the ids sent never go back   *)
(* to one that a later response has replaced.                              *)
C17_FetchUsesLatestCursor ==
  [][FetchSent =>
       /\ sentID' = scrollID
       /\ resp.status = "ok"
       /\ resp.shape # "nocursor"
            => (sentID' = resp.cursor /\ resp.cursor = CursorOf(served - 1))
       /\ sentID' >= sentID
    ]_vars

(* The third scroll request of a run carried the id of the third page.     *)
C17_Witness ==
  /\ nScroll = 3 /\ sentID = CursorOf(2) /\ served >= 3 /\ faults = MaxFaults

(* C18: the clear-scroll request carries the scroll id of the most recent  *)
(* response that was parsed, the empty page that ended the loop included,  *)
(* in every driver.                                                        *)
C18_CloseUsesLatestCursor ==
  (clearResult # "none" /\ resp.shape # "nocursor")
    => (clearedID = resp.cursor /\ resp.cursor = CursorOf(served - 1))

(* C19: a run that obtained a scroll id does not end without having sent   *)
(* the clear-scroll request, whether the loop ended on an empty page or    *)
(* the run was aborted by a failed scroll, a parse failure or a failed     *)
(* write.                                                                  *)
C19_CloseBeforeEnd ==
  (Done /\ scrollID # 0) => clearResult # "none"

(* C20 as stated: when the reported total is at most the page size, no     *)
(* scroll request is sent.                                                 *)
C20_Original ==
  total <= pageSize => nScroll = 0

(* C20 amended: after the first page the driver enters the loop whatever   *)
(* the reported total is, and the loop sends a scroll request; the         *)
(* clear-scroll request is sent without a scroll request before it only by *)
(* the refactored driver with a cancelled context.                         *)
C20_LoopAlwaysEntered ==
  [][/\ (pc = "page1" /\ pc' \notin {"page1", "done"}) => pc' = "loop"
     /\ (pc = "loop" /\ pc' # "loop")
          => (pc' = "scroll" \/ (driver = "refactored" /\ cancelled /\ pc' = "clear"))
     /\ CloseSent => (nScroll >= 1 \/ (driver = "refactored" /\ cancelled))
    ]_vars

(* An index without records, total 0: one scroll request was sent before   *)
(* the clear-scroll request.                                               *)
C20_Witness ==
  /\ Done /\ outcome = "success" /\ FailureFree
  /\ total = 0 /\ pageSize = 2 /\ nScroll = 1 /\ clearResult = "ok"

(* C21: in the refactored driver, whenever the signal goroutine cancels    *)
(* the context, the top of the loop that finds the context cancelled       *)
(* leaves the loop: from there on no scroll request is sent and nothing is *)
(* written to the output file; the run goes to the clear-scroll request    *)
(* and ends.                                                               *)
C21_CancelObservedAtBoundary ==
  [][(driver = "refactored" /\ cancelled /\ pc \in {"loop", "clear"})
       => /\ nScroll' = nScroll /\ served' = served
          /\ sink' = sink /\ visited' = visited
          /\ pc' = (IF pc = "loop" THEN "clear" ELSE "done")
    ]_vars

(* The context was cancelled after the second page had been written; the   *)
(* third record was never fetched.                                         *)
C21_Witness ==
  /\ Done /\ driver = "refactored" /\ cancelled /\ clearResult # "none"
  /\ pageSize = 1 /\ Len(records) = 3 /\ \A i \in 1..3 : records[i].title # ""
  /\ nScroll = 1 /\ served = 2 /\ Len(sink) = 2

(* The last response the driver received is a scroll page without records. *)
EndedByEmptyPage == nScroll >= 1 /\ resp.status = "ok" /\ resp.hits = <<>>

(* C22: a run ends with success only if its loop was ended by a scroll     *)
(* page without records; a run that ends in another way, a cancellation    *)
(* before the data is drained included, ends with a failure.               *)
C22_SuccessOnlyAfterEmptyPage ==
  outcome = "success" => EndedByEmptyPage

(* C23: a failed attempt of a retried request and the wait that follows it *)
(* leave the scroll id, the output file, the page counter and the last     *)
(* response as they were, and every further attempt of the same scroll     *)
(* request sends the scroll id that the first attempt sent.                *)
C23_FailedAttemptNoEffect ==
  [][/\ ((Attempting /\ UsesRetry(driver, PhaseOf(pc)) /\ AttemptFailed) \/ Waiting)
          => /\ scrollID' = scrollID /\ sink' = sink /\ currentPage' = currentPage
             /\ resp' = resp /\ served' = served /\ visited' = visited
     /\ (FetchSent /\ attempts >= 1) => sentID' = sentID
    ]_vars

(* The second scroll request failed twice and then returned the page: the  *)
(* three attempts sent the id of the second page.                          *)
C23_Witness ==
  /\ pc = "pageN" /\ driver = "modular" /\ faults = MaxFaults - 2
  /\ nScroll = 4 /\ served = 3 /\ sentID = CursorOf(1) /\ Len(sink) = 2
  /\ pageSize = 1

(* C24: when a run has ended, by success or by a fatal error, the output   *)
(* file was opened (and truncated) exactly once and closed exactly once.   *)
C24_SinkOpenedAndClosedOnce ==
  Done => (sinkOpens = 1 /\ sinkCloses = 1)

IsPrefix(a, b) == Len(a) <= Len(b) /\ SubSeq(b, 1, Len(a)) = a

====
